---- MODULE Spec2Model ----
(***************************************************************************)
(* Model of the ORM examples of the django-tutorial repository: the record *)
(* store (auto-increment primary keys), the lazy Queryset with its result  *)
(* cache, filters across multi-valued relations, JSON-field lookups, model *)
(* instance equality and the single-result fetch used by the polls views.  *)
(*                                                                         *)
(* Strings matched with LIKE (headline__contains) are sequences of words;  *)
(* a JSON document is a record [t, s, kv, el] (type tag, scalar, set of    *)
(* <<key, document>> pairs, sequence of documents), so that SQL NULL and   *)
(* JSON null are two different values.                                     *)
(***************************************************************************)
EXTENDS Integers, Sequences, FiniteSets, TLC

VARIABLES
    rows,       \* the Entry table: sequence of [pk, headline], pk ascending
    nextPk,     \* next value of the auto-increment primary key
    cache,      \* result cache of the handle `queryset`: [full, items]
    last,       \* the last operation and what it returned
    inst,       \* the in-memory model instance `blog`
    qs,         \* Queryset handles created by chaining
    blogs,      \* the Blog table
    entries,    \* the Entry table of the blog fixture (with blog, pub year)
    dogs,       \* the Dog table
    objs        \* constructed MyModel / MyProxyModel / MultitableInherited

vars == <<rows, nextPk, cache, last, inst, qs, blogs, entries, dogs, objs>>

-----------------------------------------------------------------------------
(* Bounds *)
MaxPk == 2          \* primary keys handed out per table
MaxIndex == 1       \* largest i in queryset[i]
MaxQS == 2          \* Queryset handles alive at a time
MaxBlogs == 3        \* rows of the Blog table
MaxEntries == 5      \* primary keys handed out in the Entry table of the blog example
MaxDogs == 4         \* rows of the Dog table
MaxObjs == 2         \* model instances alive at a time

\* the [lo:hi:step] of the slices taken (step 0: no step)
SliceArgs == {<<0, 1, 0>>, <<1, 2, 0>>, <<0, 2, 2>>}

(* Field values *)
Headlines == {"First entry", "Second entry"}
NoPk == 0           \* pk = None

(* JSON documents; SqlNull is the column value NULL, not a document *)
JNull == [t |-> "null", s |-> "", kv |-> {}, el |-> <<>>]
JStr(x) == [t |-> "str", s |-> x, kv |-> {}, el |-> <<>>]
JObj(pairs) == [t |-> "obj", s |-> "", kv |-> pairs, el |-> <<>>]
JArr(elems) == [t |-> "arr", s |-> "", kv |-> {}, el |-> elems]
SqlNull == [t |-> "SQLNULL", s |-> "", kv |-> {}, el |-> <<>>]

NoResult == [op |-> "init", arg |-> 0, key |-> "", hit |-> FALSE, items |-> <<>>,
             truth |-> FALSE, err |-> "", doc |-> SqlNull, other |-> 0]
EmptyCache == [full |-> FALSE, items |-> <<>>]
NoInst == [pk |-> NoPk, headline |-> "", adding |-> FALSE]

-----------------------------------------------------------------------------
(* Sequence helpers *)
RECURSIVE SelectRows(_, _)
SelectRows(s, keep) ==
    IF s = <<>> THEN <<>>
    ELSE IF Head(s).pk \in keep THEN <<Head(s)>> \o SelectRows(Tail(s), keep)
         ELSE SelectRows(Tail(s), keep)

Pks(s) == {s[i].pk : i \in 1..Len(s)}

-----------------------------------------------------------------------------
(* Record store *)

\* Entry.objects.create(headline=v): a new row under the next primary key
StoreInsert(s, pk, v) == Append(s, [pk |-> pk, headline |-> v])

\* INSERT under an explicit primary key, keeping primary-key order
StoreInsertAt(s, pk, v) ==
    SelectRows(s, {p \in Pks(s) : p < pk}) \o <<[pk |-> pk, headline |-> v]>>
        \o SelectRows(s, {p \in Pks(s) : p > pk})

\* entry.headline = v; entry.save() on a stored row
RECURSIVE StoreUpdate(_, _, _)
StoreUpdate(s, pk, v) ==
    IF s = <<>> THEN <<>>
    ELSE <<IF Head(s).pk = pk THEN [Head(s) EXCEPT !.headline = v] ELSE Head(s)>>
           \o StoreUpdate(Tail(s), pk, v)

\* Entry.objects.filter(headline=v).delete()
StoreDelete(s, v) == SelectRows(s, {s[i].pk : i \in {j \in 1..Len(s) : s[j].headline # v}})

\* Entry.objects.all() evaluated: every row, in primary-key order
Materialize(s) == s

CreateEntry(v) ==
    /\ nextPk <= MaxPk
    /\ rows' = StoreInsert(rows, nextPk, v)
    /\ nextPk' = nextPk + 1
    /\ last' = [NoResult EXCEPT !.op = "create", !.arg = nextPk]
    /\ UNCHANGED <<cache, inst, qs, blogs, entries, dogs, objs>>

UpdateEntry(pk, v) ==
    /\ pk \in Pks(rows)
    /\ rows' = StoreUpdate(rows, pk, v)
    /\ last' = [NoResult EXCEPT !.op = "update", !.arg = pk]
    /\ UNCHANGED <<nextPk, cache, inst, qs, blogs, entries, dogs, objs>>

DeleteEntries(v) ==
    /\ rows' = StoreDelete(rows, v)
    /\ last' = [NoResult EXCEPT !.op = "delete", !.arg = Len(rows) - Len(rows')]
    /\ UNCHANGED <<nextPk, cache, inst, qs, blogs, entries, dogs, objs>>

-----------------------------------------------------------------------------
(* The handle `queryset` and its result cache *)

\* queryset = Entry.objects.all(): a new, unevaluated handle
AllQuery ==
    /\ cache' = EmptyCache
    /\ last' = [NoResult EXCEPT !.op = "all"]
    /\ UNCHANGED <<rows, nextPk, inst, qs, blogs, entries, dogs, objs>>

\* a _fetch_all that queries the store on every evaluation
FetchAllAlways(c, s) == [full |-> TRUE, items |-> Materialize(s)]

\* _fetch_all: fill the cache from the store unless it is already filled
FetchAll(c, s) == IF c.full THEN c ELSE [full |-> TRUE, items |-> Materialize(s)]

FullOps == {"iterate", "bool", "in", "list"}

\* [e for e in queryset], bool(queryset), entry in queryset, list(queryset)
FullEval(op, pk) ==
    /\ op \in FullOps
    /\ (op # "in") => pk = NoPk
    /\ (op = "in") => pk # NoPk
    /\ cache' = FetchAll(cache, rows)
    /\ last' = [NoResult EXCEPT
                  !.op = op, !.arg = pk, !.hit = ~cache.full,
                  !.items = IF op \in {"iterate", "list"} THEN cache'.items ELSE <<>>,
                  !.truth = CASE op = "bool" -> cache'.items # <<>>
                              [] op = "in" -> pk \in Pks(cache'.items)
                              [] OTHER -> FALSE]
    /\ UNCHANGED <<rows, nextPk, inst, qs, blogs, entries, dogs, objs>>

\* the row at position i (0-based) of a result list, or IndexError
ItemAt(s, i) ==
    IF i + 1 <= Len(s) THEN [items |-> <<s[i + 1]>>, err |-> ""]
    ELSE [items |-> <<>>, err |-> "IndexError"]

\* a queryset[i] that evaluates the handle itself and keeps the result
IndexAccessFilling(i) ==
    LET c == FetchAll(cache, rows)
        r == ItemAt(c.items, i)
    IN  /\ cache' = c
        /\ last' = [NoResult EXCEPT !.op = "index", !.arg = i, !.hit = ~cache.full,
                                     !.items = r.items, !.err = r.err]
        /\ UNCHANGED <<rows, nextPk, inst, qs, blogs, entries, dogs, objs>>

\* queryset[i]: from the cache when it is filled, else a LIMIT 1 query on a
\* clone, which leaves the handle's cache empty
IndexAccess(i) ==
    LET src == IF cache.full THEN cache.items ELSE Materialize(rows)
        r == ItemAt(src, i)
    IN  /\ cache' = cache
        /\ last' = [NoResult EXCEPT !.op = "index", !.arg = i, !.hit = ~cache.full,
                                     !.items = r.items, !.err = r.err]
        /\ UNCHANGED <<rows, nextPk, inst, qs, blogs, entries, dogs, objs>>

-----------------------------------------------------------------------------
(* Model instances, save() and the single-result fetch *)

\* a lookup pk=n or headline=s
PkIs(n) == [f |-> "pk", n |-> n, s |-> ""]
HeadlineIs(v) == [f |-> "headline", n |-> 0, s |-> v]
Matches(row, cond) == IF cond.f = "pk" THEN row.pk = cond.n ELSE row.headline = cond.s

\* the rows of s that satisfy cond, in primary-key order
Filter(s, cond) == SelectRows(s, {s[i].pk : i \in {j \in 1..Len(s) : Matches(s[j], cond)}})

\* a get() that returns the first of several matches instead of raising
GetFirst(s, cond) ==
    LET ms == Filter(s, cond)
    IN  IF ms = <<>> THEN [items |-> <<>>, err |-> "DoesNotExist"]
        ELSE [items |-> <<ms[1]>>, err |-> ""]

\* objects.get(cond): the one matching row, DoesNotExist or MultipleResultsError
Get(s, cond) ==
    LET ms == Filter(s, cond)
    IN  CASE Len(ms) = 1 -> [items |-> ms, err |-> ""]
          [] Len(ms) = 0 -> [items |-> <<>>, err |-> "DoesNotExist"]
          [] OTHER -> [items |-> <<>>, err |-> "MultipleResultsError"]

\* get_object_or_404(Question, pk=question_id)
GetObjectOr404(s, question_id) ==
    LET r == Get(s, PkIs(question_id))
    IN  IF r.err = "DoesNotExist" THEN [items |-> <<>>, err |-> "Http404"] ELSE r

\* blog = Blog(name=v)
NewInstance(v) ==
    /\ inst' = [pk |-> NoPk, headline |-> v, adding |-> TRUE]
    /\ last' = [NoResult EXCEPT !.op = "new", !.key = v]
    /\ UNCHANGED <<rows, nextPk, cache, qs, blogs, entries, dogs, objs>>

\* entry.headline = v on the instance in memory
SetField(v) ==
    /\ inst # NoInst
    /\ inst' = [inst EXCEPT !.headline = v]
    /\ last' = [NoResult EXCEPT !.op = "set", !.key = v]
    /\ UNCHANGED <<rows, nextPk, cache, qs, blogs, entries, dogs, objs>>

\* blog.pk = None; blog._state.adding = True
ResetPk ==
    /\ inst # NoInst
    /\ inst' = [inst EXCEPT !.pk = NoPk, !.adding = TRUE]
    /\ last' = [NoResult EXCEPT !.op = "reset"]
    /\ UNCHANGED <<rows, nextPk, cache, qs, blogs, entries, dogs, objs>>

\* a save() that ignores the reset key and overwrites the newest row
SaveOverwriting ==
    /\ inst # NoInst
    /\ IF inst.pk = NoPk /\ rows = <<>>
       THEN /\ nextPk <= MaxPk
            /\ rows' = StoreInsert(rows, nextPk, inst.headline)
            /\ nextPk' = nextPk + 1
            /\ inst' = [inst EXCEPT !.pk = nextPk, !.adding = FALSE]
       ELSE LET pk == IF inst.pk = NoPk THEN rows[Len(rows)].pk ELSE inst.pk
            IN  /\ rows' = IF pk \in Pks(rows)
                           THEN StoreUpdate(rows, pk, inst.headline)
                           ELSE StoreInsertAt(rows, pk, inst.headline)
                /\ nextPk' = nextPk
                /\ inst' = [inst EXCEPT !.pk = pk, !.adding = FALSE]
    /\ last' = [NoResult EXCEPT !.op = "save", !.arg = inst'.pk]
    /\ UNCHANGED <<cache, qs, blogs, entries, dogs, objs>>

\* blog.save(): INSERT under the next key when pk is None, UPDATE of the
\* row with that pk otherwise (INSERT under that pk when the row is gone)
Save ==
    /\ inst # NoInst
    /\ IF inst.pk = NoPk
       THEN /\ nextPk <= MaxPk
            /\ rows' = StoreInsert(rows, nextPk, inst.headline)
            /\ nextPk' = nextPk + 1
            /\ inst' = [inst EXCEPT !.pk = nextPk, !.adding = FALSE]
       ELSE /\ rows' = IF inst.pk \in Pks(rows)
                       THEN StoreUpdate(rows, inst.pk, inst.headline)
                       ELSE StoreInsertAt(rows, inst.pk, inst.headline)
            /\ nextPk' = nextPk
            /\ inst' = [inst EXCEPT !.adding = FALSE]
    /\ last' = [NoResult EXCEPT !.op = "save", !.arg = inst'.pk]
    /\ UNCHANGED <<cache, qs, blogs, entries, dogs, objs>>

\* entry = Entry.objects.get(cond)
GetEntry(cond) ==
    LET r == Get(rows, cond)
    IN  /\ last' = [NoResult EXCEPT !.op = "get", !.arg = cond.n, !.key = cond.s,
                                     !.items = r.items, !.err = r.err]
        /\ inst' = IF r.err = ""
                   THEN [pk |-> r.items[1].pk, headline |-> r.items[1].headline,
                         adding |-> FALSE]
                   ELSE inst
        /\ UNCHANGED <<rows, nextPk, cache, qs, blogs, entries, dogs, objs>>

\* polls.views.detail: 404 when the question does not exist, else render it
detail(question_id) ==
    LET r == GetObjectOr404(rows, question_id)
    IN  /\ last' = [NoResult EXCEPT !.op = "detail", !.arg = question_id,
                                     !.items = r.items, !.err = r.err]
        /\ UNCHANGED <<rows, nextPk, cache, inst, qs, blogs, entries, dogs, objs>>

NextStore ==
    \/ \E v \in Headlines : NewInstance(v)
    \/ \E v \in Headlines : SetField(v)
    \/ ResetPk
    \/ Save
    \/ \E v \in Headlines : DeleteEntries(v)
    \/ \E pk \in 1..MaxPk : GetEntry(PkIs(pk))
    \/ \E v \in Headlines : GetEntry(HeadlineIs(v))
    \/ \E id \in 1..MaxPk : detail(id)

-----------------------------------------------------------------------------
(* Chained Querysets *)

NoLimit == 0 - 1
Min(a, b) == IF a < b THEN a ELSE b

\* Entry.objects.all(): the whole table, nothing cached
RootQS == [cond |-> <<>>, order |-> "", lo |-> 0, hi |-> NoLimit, annot |-> <<>>,
           shape |-> "rows", cache |-> EmptyCache]

RECURSIVE Reverse(_)
Reverse(s) == IF s = <<>> THEN <<>> ELSE Reverse(Tail(s)) \o <<Head(s)>>

RECURSIVE EveryNth(_, _)
EveryNth(s, step) ==
    IF s = <<>> THEN <<>>
    ELSE <<Head(s)>> \o EveryNth(SubSeq(s, Min(step, Len(s)) + 1, Len(s)), step)

\* s[lo:hi] of a Python list
Slice(s, lo, hi) ==
    SubSeq(s, lo + 1, IF hi = NoLimit THEN Len(s) ELSE Min(hi, Len(s)))

\* a row satisfies the condition tree: the AND of its (possibly negated) lookups
Satisfies(row, cond) ==
    \A i \in 1..Len(cond) : Matches(row, cond[i].c) = ~cond[i].neg

\* values("headline") keeps the headline, values_list("pk", flat=True) the key
Reshape(row, shape) ==
    CASE shape = "values" -> [row EXCEPT !.pk = NoPk]
      [] shape = "values_list" -> [row EXCEPT !.headline = ""]
      [] OTHER -> row

RECURSIVE ReshapeAll(_, _)
ReshapeAll(s, shape) ==
    IF s = <<>> THEN <<>> ELSE <<Reshape(Head(s), shape)>> \o ReshapeAll(Tail(s), shape)

\* the rows a Queryset describes: filter, order, slice, reshape
Run(q, s) ==
    LET f == SelectRows(s, {s[i].pk : i \in {j \in 1..Len(s) : Satisfies(s[j], q.cond)}})
        o == IF q.order = "-pk" THEN Reverse(f) ELSE f
        b == Slice(o, q.lo, q.hi)
    IN  ReshapeAll(b, q.shape)

ChainOps == {"filter", "exclude", "order_by", "values", "values_list", "annotate"}

\* the Queryset that a chaining method applied to q describes
Chained(q, op, c) ==
    CASE op = "filter" -> [q EXCEPT !.cond = Append(q.cond, [neg |-> FALSE, c |-> c])]
      [] op = "exclude" -> [q EXCEPT !.cond = Append(q.cond, [neg |-> TRUE, c |-> c])]
      [] op = "order_by" -> [q EXCEPT !.order = "-pk"]
      [] op = "values" -> [q EXCEPT !.shape = "values"]
      [] op = "values_list" -> [q EXCEPT !.shape = "values_list"]
      [] op = "annotate" -> [q EXCEPT !.annot = Append(q.annot, "entries")]
      [] OTHER -> q

\* the bounds of q[lo:hi], relative to the bounds q already has
Bounded(q, lo, hi) ==
    [q EXCEPT !.lo = q.lo + lo,
              !.hi = IF q.hi = NoLimit THEN q.lo + hi ELSE Min(q.hi, q.lo + hi)]

\* Entry.objects.all(), or a manager's get_queryset()
AllRoot ==
    /\ Len(qs) < MaxQS
    /\ qs' = Append(qs, RootQS)
    /\ last' = [NoResult EXCEPT !.op = "root"]
    /\ UNCHANGED <<rows, nextPk, cache, inst, blogs, entries, dogs, objs>>

\* a chaining method that adds its lookup to the receiver itself
ChainInPlace(h, op, c) ==
    /\ Len(qs) < MaxQS
    /\ h \in 1..Len(qs)
    /\ op \in ChainOps
    /\ qs' = Append([qs EXCEPT ![h] = Chained(qs[h], op, c)], Chained(qs[h], op, c))
    /\ last' = [NoResult EXCEPT !.op = op, !.arg = h]
    /\ UNCHANGED <<rows, nextPk, cache, inst, blogs, entries, dogs, objs>>

\* qs[h].filter(c), .exclude(c), .order_by("-pk"), .values(), .values_list(),
\* .annotate(): a clone of the receiver with the change and an empty cache
Chain(h, op, c) ==
    /\ Len(qs) < MaxQS
    /\ h \in 1..Len(qs)
    /\ op \in ChainOps
    /\ qs' = Append(qs, [Chained(qs[h], op, c) EXCEPT !.cache = EmptyCache])
    /\ last' = [NoResult EXCEPT !.op = op, !.arg = h]
    /\ UNCHANGED <<rows, nextPk, cache, inst, blogs, entries, dogs, objs>>

\* qs[h][lo:hi:step]: on an evaluated receiver the slice of its cache; with a
\* step the bounded clone evaluated at once, every step-th row kept; else a
\* bounded clone with an empty cache
SliceQS(h, lo, hi, step) ==
    /\ Len(qs) < MaxQS
    /\ h \in 1..Len(qs)
    /\ LET q == qs[h]
           b == Bounded(q, lo, hi)
           picked(s) == IF step = 0 THEN s ELSE EveryNth(s, step)
       IN  qs' = Append(qs,
                   CASE q.cache.full ->
                          [b EXCEPT !.cache = [full |-> TRUE,
                                               items |-> picked(Slice(q.cache.items, lo, hi))]]
                     [] step # 0 ->
                          [b EXCEPT !.cache = [full |-> TRUE, items |-> picked(Run(b, rows))]]
                     [] OTHER -> [b EXCEPT !.cache = EmptyCache])
    /\ last' = [NoResult EXCEPT !.op = "slice", !.arg = h, !.hit = step # 0 /\ ~qs[h].cache.full,
                                 !.key = IF step = 0 THEN "" ELSE "step"]
    /\ UNCHANGED <<rows, nextPk, cache, inst, blogs, entries, dogs, objs>>

\* list(qs[h]): fills the cache of that handle on the first evaluation
EvalQS(h) ==
    /\ h \in 1..Len(qs)
    /\ qs' = [qs EXCEPT ![h].cache = FetchAll(qs[h].cache, Run(qs[h], rows))]
    /\ last' = [NoResult EXCEPT !.op = "list", !.arg = h, !.hit = ~qs[h].cache.full,
                                 !.items = qs'[h].cache.items]
    /\ UNCHANGED <<rows, nextPk, cache, inst, blogs, entries, dogs, objs>>

\* the handles go out of scope
DropQS ==
    /\ qs # <<>>
    /\ qs' = <<>>
    /\ last' = [NoResult EXCEPT !.op = "drop"]
    /\ UNCHANGED <<rows, nextPk, cache, inst, blogs, entries, dogs, objs>>

NextChain ==
    \/ \E v \in Headlines : CreateEntry(v)
    \/ AllRoot
    \/ \E h \in 1..MaxQS, op \in ChainOps :
          Chain(h, op, IF op = "exclude" THEN PkIs(1) ELSE HeadlineIs("First entry"))
    \/ \E h \in 1..MaxQS, b \in SliceArgs : SliceQS(h, b[1], b[2], b[3])
    \/ \E h \in 1..MaxQS : EvalQS(h)
    \/ DropQS

-----------------------------------------------------------------------------
(* Blog and Entry: lookups that span the reverse foreign key entry__... *)

Date(y, m, d) == [y |-> y, m |-> m, d |-> d]

BlogNames == {"Beatles Blog", "Pop Music Blog"}

\* the headline and pub_date of the four entries of the example
EntryData ==
    {[headline |-> <<"New", "Lennon", "Biography">>, pub_date |-> Date(2008, 6, 1)],
     [headline |-> <<"New", "Lennon", "Biography", "in", "Paperback">>,
      pub_date |-> Date(2009, 6, 1)],
     [headline |-> <<"Best", "Albums", "of", "2008">>, pub_date |-> Date(2008, 12, 15)],
     [headline |-> <<"Lennon", "Would", "Have", "Loved", "Hip", "Hop">>,
      pub_date |-> Date(2020, 4, 1)]}

\* beatles = Blog.objects.create(name="Beatles Blog"); pop = ...
FixtureBlogs == <<[pk |-> 1, name |-> "Beatles Blog"], [pk |-> 2, name |-> "Pop Music Blog"]>>

FixtureEntries ==
    <<[pk |-> 1, blog |-> 1, headline |-> <<"New", "Lennon", "Biography">>,
       pub_date |-> Date(2008, 6, 1)],
      [pk |-> 2, blog |-> 1, headline |-> <<"New", "Lennon", "Biography", "in", "Paperback">>,
       pub_date |-> Date(2009, 6, 1)],
      [pk |-> 3, blog |-> 2, headline |-> <<"Best", "Albums", "of", "2008">>,
       pub_date |-> Date(2008, 12, 15)],
      [pk |-> 4, blog |-> 2, headline |-> <<"Lennon", "Would", "Have", "Loved", "Hip", "Hop">>,
       pub_date |-> Date(2020, 4, 1)]>>

\* headline__contains=w (LIKE '%w%', on words)
HeadlineContains(e, w) == \E i \in 1..Len(e.headline) : e.headline[i] = w
\* pub_date__year=y
PubYearIs(e, y) == e.pub_date.y = y

RECURSIVE Repeat(_, _)
Repeat(x, n) == IF n = 0 THEN <<>> ELSE <<x>> \o Repeat(x, n - 1)

RECURSIVE JoinRows(_, _, _)
\* one copy of each blog per row of the join that passes the WHERE clause;
\* count[i] is the number of such join rows for blog bs[i]
JoinRows(bs, count, i) ==
    IF i > Len(bs) THEN <<>>
    ELSE Repeat(bs[i], count[i]) \o JoinRows(bs, count, i + 1)

EntriesOf(b, es) == {i \in 1..Len(es) : es[i].blog = b.pk}

\* Blog.objects.filter(entry__headline__contains=w, entry__pub_date__year=y):
\* one join on entry, both lookups on the same entry
FilterBoth(bs, es, w, y) ==
    LET count == [k \in 1..Len(bs) |->
                    Cardinality({i \in EntriesOf(bs[k], es) :
                        HeadlineContains(es[i], w) /\ PubYearIs(es[i], y)})]
    IN  JoinRows(bs, count, 1)

\* a chained filter() that narrows the join of the filter() before it
FilterChainedNarrowing(bs, es, w, y) == FilterBoth(bs, es, w, y)

\* Blog.objects.filter(entry__headline__contains=w).filter(entry__pub_date__year=y):
\* each filter() joins entry again from the blog table
FilterChained(bs, es, w, y) ==
    LET count == [k \in 1..Len(bs) |->
                    Cardinality({p \in EntriesOf(bs[k], es) \X EntriesOf(bs[k], es) :
                        HeadlineContains(es[p[1]], w) /\ PubYearIs(es[p[2]], y)})]
    IN  JoinRows(bs, count, 1)

\* Blog.objects.create(name=...)
CreateBlog(name) ==
    /\ Len(blogs) < MaxBlogs
    /\ blogs' = Append(blogs, [pk |-> Len(blogs) + 1, name |-> name])
    /\ last' = [NoResult EXCEPT !.op = "create_blog", !.key = name]
    /\ UNCHANGED <<rows, nextPk, cache, inst, qs, entries, dogs, objs>>

\* Entry.objects.create(blog=b, headline=..., pub_date=...)
CreateBlogEntry(b, d) ==
    /\ nextPk <= MaxEntries
    /\ b \in 1..Len(blogs)
    /\ entries' = Append(entries, [pk |-> nextPk, blog |-> b,
                                   headline |-> d.headline, pub_date |-> d.pub_date])
    /\ nextPk' = nextPk + 1
    /\ last' = [NoResult EXCEPT !.op = "create_entry", !.arg = b]
    /\ UNCHANGED <<rows, cache, inst, qs, blogs, dogs, objs>>

\* Entry.objects.filter(pub_date__year=y).delete()
DeleteEntriesOfYear(y) ==
    /\ entries' = SelectRows(entries,
                     {entries[i].pk : i \in {j \in 1..Len(entries) : ~PubYearIs(entries[j], y)}})
    /\ last' = [NoResult EXCEPT !.op = "delete_entries", !.arg = Len(entries) - Len(entries')]
    /\ UNCHANGED <<rows, nextPk, cache, inst, qs, blogs, dogs, objs>>

BlogFilter(w, y) ==
    /\ last' = [NoResult EXCEPT !.op = "filter_both", !.key = w, !.arg = y, !.hit = TRUE,
                                 !.items = FilterBoth(blogs, entries, w, y)]
    /\ UNCHANGED <<rows, nextPk, cache, inst, qs, blogs, entries, dogs, objs>>

BlogFilterChained(w, y) ==
    /\ last' = [NoResult EXCEPT !.op = "filter_chained", !.key = w, !.arg = y, !.hit = TRUE,
                                 !.items = FilterChained(blogs, entries, w, y)]
    /\ UNCHANGED <<rows, nextPk, cache, inst, qs, blogs, entries, dogs, objs>>

Words == {"Lennon", "Albums"}
Years == {2008, 2009}
DeleteYears == {2008, 2009, 2020}

NextBlog ==
    \/ \E name \in BlogNames : CreateBlog(name)
    \/ \E b \in 1..MaxBlogs, d \in EntryData : CreateBlogEntry(b, d)
    \/ \E y \in DeleteYears : DeleteEntriesOfYear(y)
    \/ \E w \in Words, y \in Years : BlogFilter(w, y)
    \/ \E w \in Words, y \in Years : BlogFilterChained(w, y)

-----------------------------------------------------------------------------
(* Dog: lookups on the JSON field data *)

OwnerBob == JObj({<<"owner", JStr("Bob")>>})
BreedCollie == JObj({<<"breed", JStr("collie")>>})
CollieOfBob == JObj({<<"breed", JStr("collie")>>, <<"owner", JStr("Bob")>>})
LabradorOfBob == JObj({<<"breed", JStr("labrador")>>, <<"owner", JStr("Bob")>>})
Pekingese == JObj({<<"breed", JStr("pekingese")>>,
                   <<"tricks", JArr(<<JStr("fetch"), JStr("dance")>>)>>})
TricksDance == JObj({<<"tricks", JArr(<<JStr("dance")>>)>>})
PekingeseTricks == JObj({<<"breed", JStr("pekingese")>>,
                         <<"tricks", JArr(<<JStr("dance"), JStr("fetch"), JStr("hug")>>)>>})

\* Dog.objects.create(name=..., data=...) of the examples
DogData ==
    {[name |-> "Max", data |-> SqlNull],
     [name |-> "Archie", data |-> JNull],
     [name |-> "Rufus", data |-> LabradorOfBob],
     [name |-> "Meg", data |-> CollieOfBob],
     [name |-> "Fred", data |-> JObj({})],
     [name |-> "Merry", data |-> Pekingese],
     [name |-> "Meg", data |-> OwnerBob]}

\* the operands of data__contains and data__contained_by in the examples
ContainsOperands == {OwnerBob, BreedCollie, TricksDance}
ContainedByOperands == {CollieOfBob, BreedCollie, PekingeseTricks}

RECURSIVE JContains(_, _)
\* document a contains document b: every key of b is in a with a value that
\* contains b's, every element of b is contained in an element of a, and
\* scalars are equal
JContains(a, b) ==
    CASE a.t = "obj" /\ b.t = "obj" ->
           \A p \in b.kv : \E q \in a.kv : q[1] = p[1] /\ JContains(q[2], p[2])
      [] a.t = "arr" /\ b.t = "arr" ->
           \A i \in 1..Len(b.el) : \E j \in 1..Len(a.el) : JContains(a.el[j], b.el[i])
      [] OTHER -> a.t # "SQLNULL" /\ a = b

\* an isnull that takes the JSON document null for a missing value
IsNullOrJsonNull(data, flag) == (data.t \in {"SQLNULL", "null"}) = flag

\* data__isnull=flag: the column is NULL
IsNull(data, flag) == (data.t = "SQLNULL") = flag

\* data=None: the document is JSON null
IsJsonNone(data) == data = JNull

\* data__contains=x
Contains(data, x) == JContains(data, x)

\* a contained_by that tests the same direction as contains
ContainedBySameWay(data, x) == JContains(data, x)

\* data__contained_by=x
ContainedBy(data, x) == data.t # "SQLNULL" /\ JContains(x, data)

\* the dogs a lookup on data selects, in primary-key order
DogsWhere(ds, op, flag, x) ==
    SelectRows(ds, {ds[i].pk : i \in {j \in 1..Len(ds) :
        CASE op = "isnull" -> IsNull(ds[j].data, flag)
          [] op = "exact_none" -> IsJsonNone(ds[j].data)
          [] op = "contains" -> Contains(ds[j].data, x)
          [] op = "contained_by" -> ContainedBy(ds[j].data, x)
          [] OTHER -> FALSE}})

CreateDog(d) ==
    /\ Len(dogs) < MaxDogs
    /\ dogs' = Append(dogs, [pk |-> Len(dogs) + 1, name |-> d.name, data |-> d.data])
    /\ last' = [NoResult EXCEPT !.op = "create_dog", !.key = d.name]
    /\ UNCHANGED <<rows, nextPk, cache, inst, qs, blogs, entries, objs>>

\* Dog.objects.filter(data__isnull=flag), filter(data=None),
\* filter(data__contains=x), filter(data__contained_by=x)
DogFilter(op, flag, x) ==
    /\ last' = [NoResult EXCEPT !.op = op, !.truth = flag, !.doc = x, !.hit = TRUE,
                                 !.items = DogsWhere(dogs, op, flag, x)]
    /\ UNCHANGED <<rows, nextPk, cache, inst, qs, blogs, entries, dogs, objs>>

NextDog ==
    \/ \E d \in DogData : CreateDog(d)
    \/ \E flag \in BOOLEAN : DogFilter("isnull", flag, SqlNull)
    \/ DogFilter("exact_none", FALSE, JNull)
    \/ \E x \in ContainsOperands : DogFilter("contains", FALSE, x)
    \/ \E x \in ContainedByOperands : DogFilter("contained_by", FALSE, x)

-----------------------------------------------------------------------------
(* MyModel, MyProxyModel, MultitableInherited: equality of instances *)

ModelClasses == {"MyModel", "MyProxyModel", "MultitableInherited"}
Ids == {NoPk, 1, 2}
Field1Values == {"x", "y"}

\* _meta.concrete_model: a proxy model shares the table of the model it
\* proxies, a multi-table child has its own table
ConcreteModel(cls) == IF cls = "MyProxyModel" THEN "MyModel" ELSE cls

\* an equality that compares the primary keys even when they are None
ModelEqByKey(os, i, j) ==
    /\ ConcreteModel(os[i].cls) = ConcreteModel(os[j].cls)
    /\ os[i].pk = os[j].pk

\* os[i] == os[j]: same concrete model and same primary key; an instance
\* without a primary key equals only itself
ModelEq(os, i, j) ==
    IF ConcreteModel(os[i].cls) # ConcreteModel(os[j].cls) THEN FALSE
    ELSE IF os[i].pk = NoPk THEN i = j
    ELSE os[i].pk = os[j].pk

\* MyModel(id=...), MyProxyModel(id=...), MultitableInherited(id=...)
Construct(cls, id, f) ==
    /\ Len(objs) < MaxObjs
    /\ objs' = Append(objs, [cls |-> cls, pk |-> id, field1 |-> f])
    /\ last' = [NoResult EXCEPT !.op = "construct", !.key = cls, !.arg = id]
    /\ UNCHANGED <<rows, nextPk, cache, inst, qs, blogs, entries, dogs>>

\* a == b on two constructed instances (the same one when i = j)
Compare(i, j) ==
    /\ i \in 1..Len(objs)
    /\ j \in 1..Len(objs)
    /\ last' = [NoResult EXCEPT !.op = "eq", !.arg = i, !.other = j,
                                 !.truth = ModelEq(objs, i, j)]
    /\ UNCHANGED <<rows, nextPk, cache, inst, qs, blogs, entries, dogs, objs>>

\* the instances go out of scope
Forget ==
    /\ objs # <<>>
    /\ objs' = <<>>
    /\ last' = [NoResult EXCEPT !.op = "forget"]
    /\ UNCHANGED <<rows, nextPk, cache, inst, qs, blogs, entries, dogs>>

NextEq ==
    \/ \E cls \in ModelClasses, id \in Ids, f \in Field1Values : Construct(cls, id, f)
    \/ \E i \in 1..MaxObjs, j \in 1..MaxObjs : Compare(i, j)
    \/ Forget

-----------------------------------------------------------------------------
Init ==
    /\ rows = <<>>
    /\ nextPk = 1
    /\ cache = EmptyCache
    /\ last = NoResult
    /\ inst = NoInst
    /\ qs = <<>>
    /\ blogs = <<>>
    /\ entries = <<>>
    /\ dogs = <<>>
    /\ objs = <<>>

\* the shell after the two blogs and four entries of the example are created
InitBlog ==
    /\ rows = <<>>
    /\ nextPk = Len(FixtureEntries) + 1
    /\ cache = EmptyCache
    /\ last = NoResult
    /\ inst = NoInst
    /\ qs = <<>>
    /\ blogs = FixtureBlogs
    /\ entries = FixtureEntries
    /\ dogs = <<>>
    /\ objs = <<>>

Next ==
    \/ \E v \in Headlines : CreateEntry(v)
    \/ \E pk \in 1..MaxPk, v \in Headlines : UpdateEntry(pk, v)
    \/ \E v \in Headlines : DeleteEntries(v)
    \/ AllQuery
    \/ \E op \in FullOps, pk \in 0..MaxPk : FullEval(op, pk)
    \/ \E i \in 0..MaxIndex : IndexAccess(i)

Spec == Init /\ [][Next]_vars

SpecStore == Init /\ [][NextStore]_vars

SpecChain == Init /\ [][NextChain]_vars

SpecBlog == InitBlog /\ [][NextBlog]_vars

SpecDog == Init /\ [][NextDog]_vars

SpecEq == Init /\ [][NextEq]_vars

-----------------------------------------------------------------------------
(* Properties of the result cache *)

\* what a read of kind op returns when served from the result list `items`
ReadOf(items, op, arg) ==
    [items |-> CASE op \in {"iterate", "list"} -> items
                 [] op = "index" -> ItemAt(items, arg).items
                 [] OTHER -> <<>>,
     truth |-> CASE op = "bool" -> items # <<>>
                 [] op = "in" -> arg \in Pks(items)
                 [] OTHER -> FALSE,
     err |-> IF op = "index" THEN ItemAt(items, arg).err ELSE ""]

ReadOps == FullOps \cup {"index"}

\* C1: once the cache of a handle is filled it is never filled again, and
\* every later read of that handle (iteration, bool, membership, list,
\* queryset[i]) is answered from the cache without a store read, whatever
\* inserts, updates and deletes happened in the store since.
C1_CacheFilledOnce ==
    [][cache.full /\ last'.op # "all" =>
        /\ cache' = cache
        /\ last'.op \in ReadOps =>
              /\ ~last'.hit
              /\ [items |-> last'.items, truth |-> last'.truth, err |-> last'.err]
                    = ReadOf(cache.items, last'.op, last'.arg)]_vars

\* a cached read served after the store has moved away from the cached rows
C1_Witness ==
    /\ cache.full
    /\ last.op = "iterate"
    /\ ~last.hit
    /\ last.items = cache.items
    /\ cache.items # Materialize(rows)
    /\ cache.items # <<>>

\* C2: queryset[i] on a handle that was never fully evaluated reads the
\* store and leaves the cache empty (so the next queryset[i] reads the store
\* again); on a fully evaluated handle it reads the cache and not the store.
C2_IndexAccess ==
    [][last'.op = "index" =>
        /\ cache' = cache
        /\ last'.hit = ~cache.full
        /\ ~cache.full =>
              /\ last'.items = ItemAt(Materialize(rows), last'.arg).items
              /\ last'.err = ItemAt(Materialize(rows), last'.arg).err
        /\ cache.full =>
              /\ last'.items = ItemAt(cache.items, last'.arg).items
              /\ last'.err = ItemAt(cache.items, last'.arg).err]_vars

\* a store-read queryset[i] that found a row and left the cache empty
C2_Witness ==
    /\ last.op = "index"
    /\ last.hit
    /\ ~cache.full
    /\ last.items # <<>>

-----------------------------------------------------------------------------
(* Properties of the record store and of the single-result fetch *)

\* the lookup of the last get()
LastCond == IF last.key = "" THEN PkIs(last.arg) ELSE HeadlineIs(last.key)
MatchCount(s, cond) == Cardinality({i \in 1..Len(s) : Matches(s[i], cond)})

\* C7: get(cond) returns the row when exactly one row matches, raises
\* DoesNotExist when none matches and MultipleResultsError when several
\* match; it never returns without a row; the detail view answers 404 when
\* no question has the key and renders the stored question otherwise.
C7_GetSingleResult ==
    /\ last.op = "get" =>
          LET n == MatchCount(rows, LastCond)
          IN  /\ n = 1 => /\ last.err = ""
                          /\ Len(last.items) = 1
                          /\ Matches(last.items[1], LastCond)
                          /\ \E i \in 1..Len(rows) : rows[i] = last.items[1]
              /\ n = 0 => last.err = "DoesNotExist" /\ last.items = <<>>
              /\ n > 1 => last.err = "MultipleResultsError" /\ last.items = <<>>
              /\ last.err = "" => last.items # <<>>
    /\ last.op = "detail" =>
          LET n == MatchCount(rows, PkIs(last.arg))
          IN  /\ n = 0 => last.err = "Http404" /\ last.items = <<>>
              /\ n = 1 => /\ last.err = ""
                          /\ Len(last.items) = 1
                          /\ last.items[1].pk = last.arg
                          /\ \E i \in 1..Len(rows) : rows[i] = last.items[1]

\* a get() on a headline that two stored rows share
C7_Witness ==
    /\ last.op = "get"
    /\ last.err = "MultipleResultsError"
    /\ MatchCount(rows, LastCond) = 2

RowAt(s, pk) == Filter(s, PkIs(pk))

\* C10: stored rows have distinct primary keys in increasing order; a
\* save() of an instance whose pk is None stores a row under a fresh key
\* larger than every stored key, fetching that key returns the saved
\* fields, and every row stored before is unchanged.
C10_InsertFreshKey ==
    [][/\ \A i \in 1..Len(rows') : \A j \in 1..Len(rows') : i < j => rows'[i].pk < rows'[j].pk
       /\ (last'.op = "save" /\ inst.pk = NoPk) =>
             /\ inst'.pk # NoPk
             /\ \A p \in Pks(rows) : p < inst'.pk
             /\ Get(rows', PkIs(inst'.pk)) =
                   [items |-> <<[pk |-> inst'.pk, headline |-> inst.headline]>>, err |-> ""]
             /\ \A p \in Pks(rows) : RowAt(rows', p) = RowAt(rows, p)
             /\ Len(rows') = Len(rows) + 1]_vars

\* the copy of the example: saved under key 1, key reset, saved under key 2
C10_Witness ==
    /\ last.op = "save"
    /\ inst.pk = 2
    /\ Pks(rows) = {1, 2}
    /\ rows[1].headline = rows[2].headline

-----------------------------------------------------------------------------
(* Properties of chaining *)

AllChainOps == ChainOps \cup {"slice"}

\* every handle that existed is still there with the same table, condition
\* tree, ordering, bounds, annotations, shape and cache
ReceiversUnchanged ==
    /\ Len(qs') = Len(qs) + 1
    /\ \A h \in 1..Len(qs) : qs'[h] = qs[h]

\* the slices that are evaluated at once: with a step, or of a filled cache
EagerSlice == last'.op = "slice" /\ (last'.key = "step" \/ qs[last'.arg].cache.full)

\* C8 as stated: every chaining operation (filter, exclude, order_by,
\* slicing, values, values_list, annotate) returns a new Queryset with an
\* empty cache and leaves the receiver unchanged.
C8_ChainAlwaysUncached ==
    [][last'.op \in AllChainOps =>
         /\ ReceiversUnchanged
         /\ qs'[Len(qs')].cache = EmptyCache]_vars

\* C8 (amended): every chaining operation returns a new Queryset and leaves
\* the receiver unchanged, evaluated or not; the new Queryset starts with an
\* empty cache, except for a slice with a step and a slice of an evaluated
\* receiver, whose result is materialized at once.
C8_ChainLeavesReceiver ==
    [][last'.op \in AllChainOps =>
         /\ ReceiversUnchanged
         /\ qs'[Len(qs')].cache.full = EagerSlice
         /\ ~EagerSlice => qs'[Len(qs')].cache = EmptyCache]_vars

\* a filter() on a receiver that was already materialized
C8_Witness ==
    /\ last.op = "filter"
    /\ Len(qs) = 2
    /\ last.arg = 1
    /\ qs[1].cache.full
    /\ qs[1].cache.items # <<>>
    /\ qs[2].cache = EmptyCache
    /\ qs[2].cond # qs[1].cond

-----------------------------------------------------------------------------
(* Properties of filters across a multi-valued relation *)

Range(s) == {s[i] : i \in 1..Len(s)}

\* C3: whatever the blogs and entries stored, every blog returned by
\* filter(A, B) in one call is returned by filter(A).filter(B); on the
\* example (Beatles Blog and Pop Music Blog, four entries) the single call
\* with "Lennon" and 2008 returns Beatles Blog only, the chained form
\* returns Beatles Blog twice and Pop Music Blog once.
C3_ChainedIsLooser ==
    /\ last.op = "filter_both" =>
          /\ Range(last.items) \subseteq Range(FilterChained(blogs, entries, last.key, last.arg))
          /\ (blogs = FixtureBlogs /\ entries = FixtureEntries
                 /\ last.key = "Lennon" /\ last.arg = 2008)
               => last.items = <<FixtureBlogs[1]>>
    /\ last.op = "filter_chained" =>
          /\ Range(FilterBoth(blogs, entries, last.key, last.arg)) \subseteq Range(last.items)
          /\ (blogs = FixtureBlogs /\ entries = FixtureEntries
                 /\ last.key = "Lennon" /\ last.arg = 2008)
               => last.items = <<FixtureBlogs[1], FixtureBlogs[1], FixtureBlogs[2]>>

\* the chained filter on the stored example
C3_Witness ==
    /\ blogs = FixtureBlogs
    /\ entries = FixtureEntries
    /\ last.op = "filter_chained"
    /\ last.key = "Lennon"
    /\ last.arg = 2008
    /\ Len(last.items) = 3

-----------------------------------------------------------------------------
(* Properties of the JSON lookups *)

Datas(ds) == [i \in 1..Len(ds) |-> ds[i].data]
Names(ds) == [i \in 1..Len(ds) |-> ds[i].name]
Selected(ds, items) == {i \in 1..Len(ds) : ds[i] \in Range(items)}

\* C4: filter(data__isnull=True) returns a dog iff its data column is SQL
\* NULL, so never a dog whose data is the JSON document null, and
\* filter(data__isnull=False) returns exactly the other dogs; with Max (SQL
\* NULL) and Archie (JSON null) stored, True returns Max only and False
\* returns Archie only.
C4_IsNullOnlySqlNull ==
    last.op = "isnull" =>
      /\ \A i \in 1..Len(dogs) :
            (dogs[i] \in Range(last.items)) <=> ((dogs[i].data = SqlNull) = last.truth)
      /\ \A i \in 1..Len(last.items) :
            /\ last.truth => last.items[i].data # JNull
            /\ ~last.truth => last.items[i].data # SqlNull
      /\ Datas(dogs) = <<SqlNull, JNull>> =>
            last.items = IF last.truth THEN <<dogs[1]>> ELSE <<dogs[2]>>

\* isnull=False on the table that holds Max (SQL NULL) and Archie (JSON null)
C4_Witness ==
    /\ last.op = "isnull"
    /\ ~last.truth
    /\ Names(dogs) = <<"Max", "Archie">>
    /\ Datas(dogs) = <<SqlNull, JNull>>
    /\ Names(last.items) = <<"Archie">>

\* contains returns R iff the operand is a structural subset of R.data,
\* contained_by returns R iff R.data is a structural subset of the operand
ContainmentIsDual ==
    /\ last.op = "contains" =>
          \A i \in 1..Len(dogs) :
            (dogs[i] \in Range(last.items)) <=> JContains(dogs[i].data, last.doc)
    /\ last.op = "contained_by" =>
          \A i \in 1..Len(dogs) :
            (dogs[i] \in Range(last.items)) <=>
               (dogs[i].data # SqlNull /\ JContains(last.doc, dogs[i].data))

\* C5 as stated: contains and contained_by are dual, and on the documents
\* {"owner":"Bob"}, {"breed":"collie","owner":"Bob"}, {} the lookup
\* contains={"owner":"Bob"} returns the first two documents and
\* contained_by={"breed":"collie","owner":"Bob"} returns the last two.
C5_DualOnStatedFixture ==
    /\ ContainmentIsDual
    /\ Datas(dogs) = <<OwnerBob, CollieOfBob, JObj({})>> =>
          /\ (last.op = "contains" /\ last.doc = OwnerBob) => Selected(dogs, last.items) = {1, 2}
          /\ (last.op = "contained_by" /\ last.doc = CollieOfBob) =>
                Selected(dogs, last.items) = {2, 3}

\* C5 (amended): contains and contained_by are dual, and on the documents
\* {"breed":"labrador","owner":"Bob"}, {"breed":"collie","owner":"Bob"}, {}
\* of the example contains={"owner":"Bob"} returns the first two documents
\* and contained_by={"breed":"collie","owner":"Bob"} returns the last two.
C5_DualOnExampleFixture ==
    /\ ContainmentIsDual
    /\ Datas(dogs) = <<LabradorOfBob, CollieOfBob, JObj({})>> =>
          /\ (last.op = "contains" /\ last.doc = OwnerBob) =>
                /\ Selected(dogs, last.items) = {1, 2}
                /\ Names(last.items) = <<"Rufus", "Meg">>
          /\ (last.op = "contained_by" /\ last.doc = CollieOfBob) =>
                /\ Selected(dogs, last.items) = {2, 3}
                /\ Names(last.items) = <<"Meg", "Fred">>

\* contained_by on Rufus, Meg and Fred
C5_Witness ==
    /\ last.op = "contained_by"
    /\ last.doc = CollieOfBob
    /\ Datas(dogs) = <<LabradorOfBob, CollieOfBob, JObj({})>>
    /\ Names(last.items) = <<"Meg", "Fred">>

-----------------------------------------------------------------------------
(* Properties of instance equality *)

\* the table an instance is stored in
TableOf(o) == IF o.cls = "MultitableInherited" THEN "MultitableInherited" ELSE "MyModel"

\* C6: two instances are equal iff they are the same instance, or they are
\* stored in the same concrete table and have the same primary key that is
\* not None; so a proxy with the same key is equal, a multi-table child with
\* the same key is not, other fields do not matter, and an instance without
\* a key equals itself and no other instance.
C6_EqualityByTableAndKey ==
    last.op = "eq" =>
      LET a == objs[last.arg]
          b == objs[last.other]
      IN  /\ last.truth <=>
                \/ last.arg = last.other
                \/ TableOf(a) = TableOf(b) /\ a.pk # NoPk /\ a.pk = b.pk
          /\ (a.pk = NoPk /\ last.arg # last.other) => ~last.truth
          /\ (a.cls = "MyModel" /\ b.cls = "MyProxyModel" /\ a.pk = 1 /\ b.pk = 1) => last.truth
          /\ (a.cls = "MyModel" /\ b.cls = "MultitableInherited" /\ a.pk = b.pk) => ~last.truth

\* MyModel(id=1) == MyProxyModel(id=1), with different values of field1
C6_Witness ==
    /\ last.op = "eq"
    /\ last.truth
    /\ last.arg # last.other
    /\ objs[last.arg].cls = "MyModel"
    /\ objs[last.other].cls = "MyProxyModel"
    /\ objs[last.arg].pk = 1
    /\ objs[last.arg].field1 # objs[last.other].field1

====
